---- MODULE Spec2Model ----
(***************************************************************************)
(* SafeEdge Guardian: the threaded frame source (utils/camera.py), the     *)
(* orchestration loop (main.py) with the danger zone and the supervision   *)
(* engine (logic/), and the Firebase uploader as the loop sees it.         *)
(*                                                                         *)
(* Time.  The code compares differences of time.time() with thresholds.    *)
(* The model keeps the differences themselves, in whole seconds:           *)
(*   since_success = time.time() - last_successful_read, saturated one     *)
(*                   above stale_frame_threshold (all the code does with   *)
(*                   it is compare it with that threshold);                *)
(*   refresh_due   = is_stream and time.time() - last_refresh >            *)
(*                   refresh_interval.                                     *)
(* A sleep or a blocking backend call has a lower bound on its duration    *)
(* and no upper bound: Tick lets any amount of time pass at any point.     *)
(* The producer's sleep(2) in _reconnect adds its two seconds itself; its  *)
(* shorter sleeps are below a second.  The sleeps of the foreground thread *)
(* (3 s in main, 0.2 s in release) run beside the producer's, so only Tick *)
(* stands for them.                                                        *)
(*                                                                         *)
(* read() and isOpened() change nothing: they are the operators ReadOk and *)
(* IsOpenedVal, the value a call returns in the current state.  The store  *)
(* of the producer under self.lock is two steps (acquire and write the     *)
(* frame; write the rest and release); the blocks read() and release()     *)
(* run under the lock are single steps that need the lock free.  The       *)
(* buffer drain (cap.grab) after a store has no effect on the state kept.  *)
(*                                                                         *)
(* Frames.  A frame is known by its index in the order of its source.  A   *)
(* camera or a network stream goes on while it is not read, so its frames  *)
(* are numbered as they are stored; a video file is read from its first    *)
(* frame again whenever it is opened, so its frames are numbered by their  *)
(* position in the file (src_pos).                                         *)
(*                                                                         *)
(* The loop of main().  An iteration is a chain of steps: the per-person   *)
(* loop, one person a step (DetectChild, DetectAdult), the evaluation of   *)
(* supervision (EvalFrame), the status relay (PushStatus); an iteration    *)
(* that runs on the cached detections builds the same lists again and is   *)
(* one step (ReuseDetections).  The parts share only the two lists and the *)
(* status, so each specification takes the steps of the part it is about.  *)
(* The age of an alert (time.time() minus its timestamp) is kept in whole  *)
(* seconds and grows with Tick like the age of the last stored frame.      *)
(***************************************************************************)
EXTENDS Integers, Naturals, Sequences, FiniteSets, TLC

\* ---- bounds of the model -------------------------------------------------
\* frames the source holds: the frames a live source delivers in one run, the
\* length of a video file
MaxFrames == 2
\* stores into the slot from a video file in one run (caps frame_count)
MaxStores == 3
\* successful calls of read() whose frames the caller keeps
MaxReads == 2
\* calls of release() an arbitrary client makes
MaxReleases == 2
\* a processing error (resize raising) is drawn only while fewer failures are pending
MaxProcFailures == 2
\* proactive refreshes of a network stream in one run
MaxRefreshes == 1

\* children the detector reports in one frame
MaxChildren == 2
\* frame widths and heights 1..MaxDim a danger zone is made for, beside the
\* default resolution
MaxDim == 4

\* ---- program constants ---------------------------------------------------
max_reconnect_attempts == 5
stale_frame_threshold == 5
max_consecutive_failures == 30
reconnect_delay == 2
\* main.py: frame_timeout_counter < 100
frame_timeout_limit == 100

\* supervision.py: MAX_DISTANCE, MIN_MOTION (pixels, pixels per frame)
MAX_DISTANCE == 120
MIN_MOTION == 3
\* main.py: the default resolution, which every frame is resized to
FrameWidth == 480
FrameHeight == 360
\* main.py: ALERT_COOLDOWN_SECONDS, upload_interval
ALERT_COOLDOWN_SECONDS == 3
upload_interval == 30

NoFrame == 0
AgeCap == stale_frame_threshold + 1
\* the age of an alert saturates one above the cooldown it is compared with
CooldownCap == ALERT_COOLDOWN_SECONDS + 1
AttemptCap == max_reconnect_attempts + 2

Min(a, b) == IF a < b THEN a ELSE b

\* consecutive_failures is a local of _update: it is gone once the thread returns
Local(pcNew, cfNew) == IF pcNew = "done" THEN 0 ELSE cfNew

VARIABLES
    \* ThreadedCamera fields
    cap,                 \* self.cap: "open", "closed" (never opened), "released"
    frame,               \* self.frame: NoFrame or the index of the stored frame
    grabbed,             \* self.grabbed
    stopped,             \* self.stopped
    since_success,       \* time.time() - self.last_successful_read
    reconnect_attempts,  \* self.reconnect_attempts
    frame_count,         \* self.frame_count
    is_stream,           \* self.is_stream
    refresh_due,         \* is_stream and time.time() - last_refresh > refresh_interval
    lock,                \* self.lock: "free" or "producer"
    is_file,             \* self.src is the path of a video file
    src_pos,             \* frames read from a video file since it was opened
    \* the producer thread (_update)
    pc,                  \* position of the producer in _update / _reconnect / _refresh_stream
    consecutive_failures,
    rc_site,             \* which call of _reconnect is in progress
    \* the foreground thread
    rel_pc,              \* position inside release()
    rel_calls,           \* completed calls of release()
    main_pc,             \* position of main(); "off" when the client is arbitrary
    frame_timeout_counter,
    last_valid_frame,    \* main's last_valid_frame is not None
    \* observation
    term,                \* why the producer left its loop
    iter_reconnects,     \* reconnect attempts made in the current loop iteration
    outage_attempts,     \* reconnect attempts made since the last stored frame
    refreshes,           \* proactive refreshes made so far
    \* the buffers read() has handed to its caller
    held,                \* the buffer each successful read() returned, in call order
    touched,             \* the calls whose returned frame the caller has drawn on
    \* the supervision part of an iteration of main()
    sup_pc,              \* "detect": the per-person loop; "evaluated": after line 384
    children,            \* children: list of (id, center)
    adults,              \* adults: list of (id, center)
    prev_positions,      \* supervisor.prev_positions
    global_status,
    children_in_danger,
    \* observation
    prev_at_start,       \* prev_positions as the evaluation of the frame found it
    contrib,             \* what the evaluation made of each child it came to
    reused,              \* the frame was evaluated on the cached detections
    \* zone-crossing detection in the per-person loop
    child_zone_status,   \* child_zone_status: defaultdict(lambda: False)
    alert_cooldown,      \* alert_cooldown: id -> time.time() - (time of its last alert)
    \* observation
    crossed,             \* the child the last per-person step saw enter the zone, or 0
    alert_sent,          \* the child the last per-person step sent an alert for, or 0
    since_alert,         \* id -> time since an alert was last sent for it
    \* the status relay at the end of an iteration
    prev_status,
    frame_counter,
    \* observation
    since_push,          \* iterations that ended without update_status since its last call
    last_relayed,        \* the status the last call of update_status was given
    relay_result,        \* what the last step's call of the uploader returned
    \* the danger zone
    danger_zone,         \* main's danger_zone; NoZone for None
    probe,               \* the point of the last is_inside call made on its own, <<>> before it
    probe_inside         \* what that call returned

camVars == <<cap, frame, grabbed, stopped, since_success, reconnect_attempts,
             frame_count, is_stream, refresh_due>>
srcVars == <<lock, is_file, src_pos>>
prodVars == <<pc, consecutive_failures, rc_site>>
fgVars == <<rel_pc, rel_calls, main_pc, frame_timeout_counter, last_valid_frame>>
obsVars == <<term, iter_reconnects, outage_attempts, refreshes>>
bufVars == <<held, touched>>
supVars == <<sup_pc, children, adults, prev_positions, global_status,
             children_in_danger, prev_at_start, contrib, reused>>
trackVars == <<child_zone_status, alert_cooldown, crossed, alert_sent, since_alert>>
relayVars == <<prev_status, frame_counter, since_push, last_relayed, relay_result>>
zoneVars == <<danger_zone, probe, probe_inside>>
loopVars == <<supVars, trackVars, relayVars, zoneVars>>
appVars == <<bufVars, loopVars>>
vars == <<camVars, srcVars, prodVars, fgVars, obsVars, appVars>>

\* ---- construction --------------------------------------------------------
\* __init__: the handle _init_capture returns is open or not; no frame yet.
CamInit ==
    /\ cap \in {"open", "closed"}
    /\ frame = NoFrame
    /\ grabbed = FALSE
    /\ stopped = FALSE
    /\ since_success = 0
    /\ reconnect_attempts = 0
    /\ frame_count = 0
    /\ is_stream \in BOOLEAN
    /\ refresh_due = FALSE
    /\ lock = "free"
    /\ is_file \in (IF is_stream THEN {FALSE} ELSE BOOLEAN)
    /\ src_pos = 0
    /\ pc = "idle"
    /\ consecutive_failures = 0
    /\ rc_site = "none"
    /\ rel_pc = "idle"
    /\ rel_calls = 0
    /\ frame_timeout_counter = 0
    /\ last_valid_frame = FALSE
    /\ term = "none"
    /\ iter_reconnects = 0
    /\ outage_attempts = 0
    /\ refreshes = 0

\* nothing read yet
BufInit ==
    /\ held = <<>>
    /\ touched = {}

\* supervisor = SupervisionChecker(); the first iteration has detected nobody yet
EngineInit ==
    /\ sup_pc = "detect"
    /\ children = <<>>
    /\ adults = <<>>
    /\ prev_positions = <<>>
    /\ global_status = "safe"
    /\ children_in_danger = <<>>
    /\ prev_at_start = <<>>
    /\ contrib = <<>>
    /\ reused = FALSE

\* child_zone_status = defaultdict(lambda: False): every id reads False until
\* it is set; alert_cooldown = {}
TrackInit ==
    /\ child_zone_status = [c \in 1..MaxChildren |-> FALSE]
    /\ alert_cooldown = <<>>
    /\ crossed = 0
    /\ alert_sent = 0
    /\ since_alert = <<>>

\* prev_status = None, frame_counter = 0
RelayInit ==
    /\ prev_status = "none"
    /\ frame_counter = 0
    /\ since_push = 0
    /\ last_relayed = "none"
    /\ relay_result = "none"

\* danger_zone = None, stood for by a zone of a frame without pixels
NoZone ==
    [frame_width |-> 0, frame_height |-> 0, x1 |-> 0, y1 |-> 0, x2 |-> 0, y2 |-> 0]

ZoneInit ==
    /\ danger_zone = NoZone
    /\ probe = <<>>
    /\ probe_inside = FALSE

AppInit == BufInit /\ EngineInit /\ TrackInit /\ RelayInit /\ ZoneInit

Init == CamInit /\ AppInit /\ main_pc = "off"

\* ---- time ----------------------------------------------------------------
Tick ==
    /\ since_success' = Min(since_success + 1, AgeCap)
    /\ refresh_due' \in (IF is_stream /\ refreshes < MaxRefreshes
                          THEN {refresh_due, TRUE} ELSE {refresh_due})
    /\ alert_cooldown' = [c \in DOMAIN alert_cooldown |->
                             Min(alert_cooldown[c] + 1, CooldownCap)]
    /\ since_alert' = [c \in DOMAIN since_alert |->
                          Min(since_alert[c] + 1, CooldownCap)]
    /\ UNCHANGED <<cap, frame, grabbed, stopped, reconnect_attempts, frame_count,
                   is_stream, srcVars, prodVars, fgVars, obsVars>>
    /\ UNCHANGED <<bufVars, supVars, child_zone_status, crossed, alert_sent,
                   relayVars, zoneVars>>

\* ---- the producer: start, _update, _refresh_stream, _reconnect ------------
StartThread ==
    /\ pc = "idle"
    /\ pc' = "loop"

Start ==
    /\ main_pc = "off"
    /\ rel_pc = "idle"
    /\ StartThread
    /\ UNCHANGED <<camVars, srcVars, consecutive_failures, rc_site, fgVars, obsVars>>
    /\ UNCHANGED appVars

\* while not self.stopped: ... if is_stream and refresh due: _refresh_stream()
\* (up to its cap.release(); the reopening follows the sleep)
LoopTop ==
    /\ pc = "loop"
    /\ iter_reconnects' = 0
    /\ IF stopped
         THEN /\ pc' = "done"
              /\ term' = "stopped"
              /\ cap' = cap
         ELSE /\ term' = term
              /\ IF refresh_due
                   THEN cap' = "released" /\ pc' = "rf_sleep"
                   ELSE cap' = cap /\ pc' = "chk_open"
    /\ consecutive_failures' = Local(pc', consecutive_failures)
    /\ UNCHANGED <<frame, grabbed, stopped, since_success, reconnect_attempts,
                   frame_count, is_stream, refresh_due, srcVars, rc_site, fgVars,
                   outage_attempts, refreshes>>
    /\ UNCHANGED appVars

\* _init_capture on a source that was open before: cv2.VideoCapture(src) starts
\* a video file at its first frame again
Reopened == 0

\* cap.read() has a frame to deliver
SourceHasFrame ==
    IF is_file THEN src_pos < MaxFrames /\ frame_count < MaxStores
               ELSE frame_count < MaxFrames

\* the source index of the frame cap.read() delivered last
Delivered == IF is_file THEN src_pos ELSE frame_count + 1

\* _refresh_stream after the sleep: reopen, restart the timer, reset the attempts
RefreshReopen ==
    /\ pc = "rf_sleep"
    /\ cap' \in {"open", "closed"}
    /\ refresh_due' = FALSE
    /\ reconnect_attempts' = 0
    /\ refreshes' = refreshes + 1
    /\ pc' = "chk_open"
    /\ src_pos' = Reopened
    /\ UNCHANGED <<frame, grabbed, stopped, since_success, frame_count, is_stream,
                   lock, is_file, consecutive_failures, rc_site, fgVars, term, iter_reconnects,
                   outage_attempts>>
    /\ UNCHANGED appVars

\* _reconnect with its exhaustion test one attempt late
ReconnectCall_OneMore(site) ==
    IF reconnect_attempts > max_reconnect_attempts
      THEN /\ stopped' = TRUE
           /\ pc' = "done"
           /\ term' = "exhausted"
           /\ cap' = cap
           /\ rc_site' = "none"
      ELSE /\ stopped' = stopped
           /\ pc' = "rc_sleep"
           /\ term' = term
           /\ cap' = "released"
           /\ rc_site' = site

\* _reconnect up to its sleep: the exhaustion test, then cap.release().
\* Every caller breaks out of the loop when _reconnect returns False.
ReconnectCall(site) ==
    IF reconnect_attempts >= max_reconnect_attempts
      THEN /\ stopped' = TRUE
           /\ pc' = "done"
           /\ term' = "exhausted"
           /\ cap' = cap
           /\ rc_site' = "none"
      ELSE /\ stopped' = stopped
           /\ pc' = "rc_sleep"
           /\ term' = term
           /\ cap' = "released"
           /\ rc_site' = site

\* where the loop goes on after a _reconnect that returned True
AfterReconnect(site) ==
    IF site = "stale" THEN "fail_cap" ELSE "loop"

\* ReconnectReopen with the frame counter restarted for the new handle
ReconnectReopen_Recount ==
    /\ pc = "rc_sleep"
    /\ since_success' = Min(since_success + reconnect_delay, AgeCap)
    /\ cap' \in {"open", "closed"}
    /\ reconnect_attempts' = reconnect_attempts + 1
    /\ iter_reconnects' = iter_reconnects + 1
    /\ outage_attempts' = Min(outage_attempts + 1, AttemptCap)
    /\ IF cap' = "open"
         THEN pc' = AfterReconnect(rc_site) /\ term' = term
         ELSE pc' = "done" /\ term' = "reconnect_failed"
    /\ rc_site' = "none"
    /\ consecutive_failures' = Local(pc', consecutive_failures)
    /\ src_pos' = Reopened
    /\ frame_count' = 0
    /\ UNCHANGED <<frame, grabbed, stopped, is_stream, refresh_due,
                   lock, is_file, fgVars, refreshes>>
    /\ UNCHANGED appVars

\* _reconnect after sleep(2): reopen, count the attempt, report cap.isOpened()
ReconnectReopen ==
    /\ pc = "rc_sleep"
    /\ since_success' = Min(since_success + reconnect_delay, AgeCap)
    /\ cap' \in {"open", "closed"}
    /\ reconnect_attempts' = reconnect_attempts + 1
    /\ iter_reconnects' = iter_reconnects + 1
    /\ outage_attempts' = Min(outage_attempts + 1, AttemptCap)
    /\ IF cap' = "open"
         THEN pc' = AfterReconnect(rc_site) /\ term' = term
         ELSE pc' = "done" /\ term' = "reconnect_failed"
    /\ rc_site' = "none"
    /\ consecutive_failures' = Local(pc', consecutive_failures)
    /\ src_pos' = Reopened
    /\ UNCHANGED <<frame, grabbed, stopped, frame_count, is_stream, refresh_due,
                   lock, is_file, fgVars, refreshes>>
    /\ UNCHANGED appVars

\* if not self.cap.isOpened(): if not self._reconnect(): break; continue
ChkOpen ==
    /\ pc = "chk_open"
    /\ IF cap # "open"
         THEN ReconnectCall("open")
         ELSE /\ pc' = "read"
              /\ UNCHANGED <<cap, stopped, term, rc_site>>
    /\ consecutive_failures' = Local(pc', consecutive_failures)
    /\ UNCHANGED <<frame, grabbed, since_success, reconnect_attempts, frame_count,
                   is_stream, refresh_due, srcVars, fgVars, iter_reconnects,
                   outage_attempts, refreshes>>
    /\ UNCHANGED appVars

\* grabbed, frame = self.cap.read(), an exception counting as a failed read
ReadFrame ==
    /\ pc = "read"
    /\ \E ok \in BOOLEAN :
         /\ ok => (cap = "open" /\ SourceHasFrame)
         /\ pc' = IF ok THEN "store" ELSE "fail"
         /\ src_pos' = IF ok /\ is_file THEN src_pos + 1 ELSE src_pos
    /\ UNCHANGED <<camVars, lock, is_file, consecutive_failures, rc_site, fgVars,
                   obsVars>>
    /\ UNCHANGED appVars

\* StoreFrame writing the slot without taking the lock
StoreFrame_NoLock ==
    /\ pc = "store"
    /\ \/ /\ frame' = Delivered
          /\ pc' = "locked"
          /\ UNCHANGED consecutive_failures
       \/ /\ consecutive_failures < MaxProcFailures
          /\ consecutive_failures' = consecutive_failures + 1
          /\ pc' = "loop"
          /\ UNCHANGED frame
    /\ UNCHANGED <<cap, grabbed, stopped, since_success, reconnect_attempts,
                   frame_count, is_stream, refresh_due, srcVars, rc_site,
                   fgVars, obsVars>>
    /\ UNCHANGED appVars

\* the try block of a good read: resize, then "with self.lock:" once the lock
\* is free and the first statement under it, self.frame = frame; an exception
\* goes to the except branch (count a failure, sleep, next iteration)
StoreFrame ==
    /\ pc = "store"
    /\ \/ /\ lock = "free"
          /\ lock' = "producer"
          /\ frame' = Delivered
          /\ pc' = "locked"
          /\ UNCHANGED consecutive_failures
       \/ /\ consecutive_failures < MaxProcFailures
          /\ consecutive_failures' = consecutive_failures + 1
          /\ pc' = "loop"
          /\ UNCHANGED <<lock, frame>>
    /\ UNCHANGED <<cap, grabbed, stopped, since_success, reconnect_attempts,
                   frame_count, is_stream, refresh_due, is_file, src_pos, rc_site,
                   fgVars, obsVars>>
    /\ UNCHANGED appVars

\* StoreDone with the sleep that follows it taken inside the with block
StoreDone_KeepLock ==
    /\ pc = "locked"
    /\ grabbed' = TRUE
    /\ since_success' = 0
    /\ frame_count' = frame_count + 1
    /\ outage_attempts' = 0
    /\ pc' = "post"
    /\ UNCHANGED <<cap, frame, stopped, reconnect_attempts, is_stream, refresh_due,
                   srcVars, consecutive_failures, rc_site, fgVars, term,
                   iter_reconnects, refreshes>>
    /\ UNCHANGED appVars

\* the rest of the block under the lock: grabbed, the two timestamps,
\* frame_count; the lock is released at the end of the with block
StoreDone ==
    /\ pc = "locked"
    /\ grabbed' = TRUE
    /\ since_success' = 0
    /\ frame_count' = frame_count + 1
    /\ outage_attempts' = 0
    /\ lock' = "free"
    /\ pc' = "post"
    /\ UNCHANGED <<cap, frame, stopped, reconnect_attempts, is_stream, refresh_due,
                   is_file, src_pos, consecutive_failures, rc_site, fgVars, term,
                   iter_reconnects, refreshes>>
    /\ UNCHANGED appVars

\* the steps after the lock without the reset of reconnect_attempts
PostStore_KeepAttempts ==
    /\ pc = "post"
    /\ consecutive_failures' = 0
    /\ pc' = "loop"
    /\ UNCHANGED <<cap, frame, grabbed, stopped, since_success, reconnect_attempts,
                   frame_count, is_stream, refresh_due, srcVars, rc_site, fgVars,
                   obsVars>>
    /\ UNCHANGED appVars

\* after the lock: reset the counters, sleep, (drain the buffer), next iteration
PostStore ==
    /\ pc = "post"
    /\ reconnect_attempts' = 0
    /\ consecutive_failures' = 0
    /\ pc' = "loop"
    /\ UNCHANGED <<cap, frame, grabbed, stopped, since_success, frame_count, is_stream,
                   refresh_due, srcVars, rc_site, fgVars, obsVars>>
    /\ UNCHANGED appVars

\* the else branch: count the failure, then the staleness test
FailCount ==
    /\ pc = "fail"
    /\ IF since_success > stale_frame_threshold
         THEN ReconnectCall("stale")
         ELSE /\ pc' = "fail_cap"
              /\ UNCHANGED <<cap, stopped, term, rc_site>>
    /\ consecutive_failures' = Local(pc', consecutive_failures + 1)
    /\ UNCHANGED <<frame, grabbed, since_success, reconnect_attempts, frame_count,
                   is_stream, refresh_due, srcVars, fgVars, iter_reconnects,
                   outage_attempts, refreshes>>
    /\ UNCHANGED appVars

\* the failure cap test of the same iteration, then sleep(0.1)
FailCap ==
    /\ pc = "fail_cap"
    /\ IF consecutive_failures >= max_consecutive_failures
         THEN /\ consecutive_failures' = 0
              /\ ReconnectCall("cap")
         ELSE /\ pc' = "loop"
              /\ UNCHANGED <<cap, stopped, term, rc_site, consecutive_failures>>
    /\ UNCHANGED <<frame, grabbed, since_success, reconnect_attempts, frame_count,
                   is_stream, refresh_due, srcVars, fgVars, iter_reconnects,
                   outage_attempts, refreshes>>
    /\ UNCHANGED appVars

Producer ==
    \/ LoopTop
    \/ RefreshReopen
    \/ ReconnectReopen
    \/ ChkOpen
    \/ ReadFrame
    \/ StoreFrame
    \/ StoreDone
    \/ PostStore
    \/ FailCount
    \/ FailCap

\* ---- the consumer side of ThreadedCamera ----------------------------------
\* read() that trusts self.grabbed without looking at the slot
ReadOk_GrabbedOnly == grabbed

\* read(): (False, None) on an empty slot, else (self.grabbed, copy)
ReadOk == frame # NoFrame /\ grabbed

\* isOpened() without its staleness test
IsOpened_HandleOnly == cap = "open"

\* isOpened(): the handle is open and the last success is recent
IsOpenedVal == cap = "open" /\ since_success < stale_frame_threshold

\* get_stream_health()["is_healthy"]
IsHealthy == since_success < stale_frame_threshold

\* release(): self.stopped = True, then sleep(0.2)
ReleaseBegin ==
    /\ rel_pc = "idle"
    /\ \/ main_pc = "off" /\ rel_calls < MaxReleases
       \/ main_pc = "release"
    /\ stopped' = TRUE
    /\ rel_pc' = "sleep"
    /\ UNCHANGED <<cap, frame, grabbed, since_success, reconnect_attempts, frame_count,
                   is_stream, refresh_due, srcVars, prodVars, rel_calls, main_pc,
                   frame_timeout_counter, last_valid_frame, obsVars>>
    /\ UNCHANGED appVars

\* release(): self.cap.release()
ReleaseCap ==
    /\ rel_pc = "sleep"
    /\ cap' = "released"
    /\ rel_pc' = "clear"
    /\ UNCHANGED <<frame, grabbed, stopped, since_success, reconnect_attempts,
                   frame_count, is_stream, refresh_due, srcVars, prodVars, rel_calls,
                   main_pc, frame_timeout_counter, last_valid_frame, obsVars>>
    /\ UNCHANGED appVars

\* release(): clear the slot under the lock, return
ReleaseClear ==
    /\ rel_pc = "clear"
    /\ lock = "free"
    /\ frame' = NoFrame
    /\ rel_pc' = "idle"
    /\ rel_calls' = rel_calls + 1
    /\ main_pc' = IF main_pc = "release" THEN "done" ELSE main_pc
    /\ UNCHANGED <<cap, grabbed, stopped, since_success, reconnect_attempts,
                   frame_count, is_stream, refresh_due, srcVars, prodVars,
                   frame_timeout_counter, last_valid_frame, obsVars>>
    /\ UNCHANGED appVars

Release == ReleaseBegin \/ ReleaseCap \/ ReleaseClear

\* ---- read() and the buffers it hands out ----------------------------------
\* A buffer is known by the way it was made: <<"slot", n>> is the array the
\* producer put into the slot with its n-th store, <<"copy", k>> the array
\* made by frame.copy() in the k-th successful read().
SlotBuf == <<"slot", IF lock = "producer" THEN frame_count + 1 ELSE frame_count>>

\* the caller has written into buffer b through one of the frames it holds
Scribbled(b) == \E i \in touched : held[i] = b

\* read() returning the array of the slot itself
ReadCopy_Alias ==
    /\ main_pc = "off"
    /\ lock = "free"
    /\ ReadOk
    /\ Len(held) < MaxReads
    /\ held' = Append(held, SlotBuf)
    /\ UNCHANGED <<camVars, srcVars, prodVars, fgVars, obsVars, touched, loopVars>>

\* read() with a frame in the slot: return self.grabbed, self.frame.copy()
ReadCopy ==
    /\ main_pc = "off"
    /\ lock = "free"
    /\ ReadOk
    /\ Len(held) < MaxReads
    /\ held' = Append(held, <<"copy", Len(held) + 1>>)
    /\ UNCHANGED <<camVars, srcVars, prodVars, fgVars, obsVars, touched, loopVars>>

\* the caller draws on a frame it got from read() (main.py draws the zone,
\* the boxes and the status text on it)
DrawOnFrame ==
    /\ \E i \in (1..Len(held)) \ touched : touched' = touched \cup {i}
    /\ UNCHANGED <<camVars, srcVars, prodVars, fgVars, obsVars, held, loopVars>>

\* ---- the danger zone and the supervision engine ----------------------------
\* Positions are pixel centres <<x, y>> with integer coordinates
\* (center_of_bbox returns ints).  The code compares math.sqrt of a sum of
\* squares with a threshold; for integers sqrt(n) < t is n < t*t and
\* sqrt(n) > t is n > t*t, so the model compares the squares.
ChildIds == 1..MaxChildren
\* the tracker knows two adults; each is in a frame or not
AdultIds == {MaxChildren + 1, MaxChildren + 2}

\* where the detector may put a child: inside the zone, outside it
ChildPositions == {<<400, 100>>, <<100, 100>>}
\* where it may put an adult: 200 px from the zone child, 3 px from it, on it
AdultPositions == {<<200, 100>>, <<397, 100>>, <<400, 100>>}

\* a zone whose left edge is rounded to the nearest pixel
DangerZone_Round(w, h) ==
    [frame_width |-> w, frame_height |-> h,
     x1 |-> (w * 3 + 2) \div 4, y1 |-> 0, x2 |-> w, y2 |-> h]

\* DangerZone(w, h): x1 = int(w * 0.75), y1 = 0, x2 = w, y2 = h.  w * 0.75 is
\* exact in floating point for every frame width, and int() drops the
\* fraction of a number that is not negative.
DangerZone(w, h) ==
    [frame_width |-> w, frame_height |-> h,
     x1 |-> (w * 3) \div 4, y1 |-> 0, x2 |-> w, y2 |-> h]

\* the left edge of the zone of the default resolution
ZoneX1 == DangerZone(FrameWidth, FrameHeight).x1

\* DangerZone.is_inside(x, y) on zone z, both ends included
InZone(z, x, y) ==
    /\ z.x1 <= x /\ x <= z.x2
    /\ z.y1 <= y /\ y <= z.y2

\* danger_zone.is_inside(*pos)
is_inside(pos) == InZone(danger_zone, pos[1], pos[2])

\* the widths and heights a frame may have, the coordinates a point may have
Dims == (1..MaxDim) \cup {FrameWidth, FrameHeight}
Coords ==
    ((0 - 1)..(MaxDim + 1))
        \cup {ZoneX1 - 1, ZoneX1, ZoneX1 + 1, FrameHeight + 1,
              FrameWidth - 1, FrameWidth, FrameWidth + 1}

\* the square of SupervisionChecker.distance
Dist2(p, q) == (p[1] - q[1]) * (p[1] - q[1]) + (p[2] - q[2]) * (p[2] - q[2])

\* dict assignment d[k] = v
Put(d, k, v) == [x \in DOMAIN d \cup {k} |-> IF x = k THEN v ELSE d[x]]

\* the square of what motion_speed returns (it also stores pos, see is_attentive)
motion_speed2(prev, pid, pos) ==
    IF pid \notin DOMAIN prev THEN 0 ELSE Dist2(prev[pid], pos)

\* is_attentive without its motion test
is_attentive_NearOnly(prev, adult_id, adult_pos, child_pos) ==
    Dist2(adult_pos, child_pos) < MAX_DISTANCE * MAX_DISTANCE

\* is_attentive: dist < MAX_DISTANCE and speed > MIN_MOTION
is_attentive(prev, adult_id, adult_pos, child_pos) ==
    /\ Dist2(adult_pos, child_pos) < MAX_DISTANCE * MAX_DISTANCE
    /\ motion_speed2(prev, adult_id, adult_pos) > MIN_MOTION * MIN_MOTION

\* the scan with "<=" for "<": of the adults at the least distance the last
\* one listed is kept
RECURSIVE NearestScan_LastWins(_, _, _, _)
NearestScan_LastWins(cpos, as, j, best) ==
    IF j > Len(as) THEN best
    ELSE NearestScan_LastWins(cpos, as, j + 1,
             IF best = 0 \/ Dist2(as[j].pos, cpos) <= Dist2(as[best].pos, cpos)
               THEN j ELSE best)

\* the scan for the nearest adult: index of the first adult at the least
\* distance, 0 when the list is empty
RECURSIVE NearestScan(_, _, _, _)
NearestScan(cpos, as, j, best) ==
    IF j > Len(as) THEN best
    ELSE NearestScan(cpos, as, j + 1,
             IF best = 0 \/ Dist2(as[j].pos, cpos) < Dist2(as[best].pos, cpos)
               THEN j ELSE best)

\* the state of the evaluation loop before the first child
LoopStart(prev) ==
    [status |-> "safe", danger |-> <<>>, prev |-> prev, contrib |-> <<>>,
     broke |-> FALSE]

\* the loop body with an unsupervised child never raised above warning
EvalChild_WarnOnly(st, c, as) ==
    IF ~is_inside(c.pos)
      THEN [st EXCEPT !.contrib = Append(@, "safe")]
      ELSE LET n == NearestScan(c.pos, as, 1, 0)
               attentive == n # 0 /\ is_attentive(st.prev, as[n].id, as[n].pos, c.pos)
               prev2 == IF n = 0 THEN st.prev ELSE Put(st.prev, as[n].id, as[n].pos)
           IN  IF attentive
                 THEN [st EXCEPT !.prev = prev2, !.contrib = Append(@, "safe")]
                 ELSE [st EXCEPT !.status = IF @ # "danger" THEN "warning" ELSE @,
                                 !.prev = prev2,
                                 !.contrib = Append(@, "warning")]

\* the loop body without the zone test: every child is put to its nearest adult
EvalChild_NoZoneTest(st, c, as) ==
    LET n == NearestScan(c.pos, as, 1, 0)
        attentive == n # 0 /\ is_attentive(st.prev, as[n].id, as[n].pos, c.pos)
        prev2 == IF n = 0 THEN st.prev ELSE Put(st.prev, as[n].id, as[n].pos)
    IN  IF attentive
          THEN [st EXCEPT !.prev = prev2, !.contrib = Append(@, "safe")]
        ELSE IF n = 0
          THEN [st EXCEPT !.status = "danger",
                          !.danger = Append(@, c.id),
                          !.contrib = Append(@, "danger"),
                          !.broke = TRUE]
          ELSE [st EXCEPT !.status = IF @ # "danger" THEN "warning" ELSE @,
                          !.prev = prev2,
                          !.contrib = Append(@, "warning"),
                          !.broke = (st.status = "danger")]

\* the loop body with the status taken from the child at hand, whatever the
\* earlier children made it
EvalChild_LastWins(st, c, as) ==
    IF ~is_inside(c.pos)
      THEN [st EXCEPT !.status = "safe", !.contrib = Append(@, "safe")]
      ELSE LET n == NearestScan(c.pos, as, 1, 0)
               attentive == n # 0 /\ is_attentive(st.prev, as[n].id, as[n].pos, c.pos)
               prev2 == IF n = 0 THEN st.prev ELSE Put(st.prev, as[n].id, as[n].pos)
           IN  IF attentive
                 THEN [st EXCEPT !.status = "safe", !.prev = prev2,
                                 !.contrib = Append(@, "safe")]
               ELSE IF n = 0
                 THEN [st EXCEPT !.status = "danger",
                                 !.danger = Append(@, c.id),
                                 !.contrib = Append(@, "danger"),
                                 !.broke = TRUE]
                 ELSE [st EXCEPT !.status = "warning",
                                 !.prev = prev2,
                                 !.contrib = Append(@, "warning"),
                                 !.broke = (st.status = "danger")]

\* the body of "for cid, cpos in children" for one child
EvalChild(st, c, as) ==
    IF ~is_inside(c.pos)
      THEN [st EXCEPT !.contrib = Append(@, "safe")]
      ELSE LET n == NearestScan(c.pos, as, 1, 0)
               attentive == n # 0 /\ is_attentive(st.prev, as[n].id, as[n].pos, c.pos)
               prev2 == IF n = 0 THEN st.prev ELSE Put(st.prev, as[n].id, as[n].pos)
           IN  IF attentive
                 THEN [st EXCEPT !.prev = prev2, !.contrib = Append(@, "safe")]
               ELSE IF n = 0
                 THEN [st EXCEPT !.status = "danger",
                                 !.danger = Append(@, c.id),
                                 !.contrib = Append(@, "danger"),
                                 !.broke = TRUE]
                 ELSE [st EXCEPT !.status = IF @ # "danger" THEN "warning" ELSE @,
                                 !.prev = prev2,
                                 !.contrib = Append(@, "warning"),
                                 !.broke = (st.status = "danger")]

\* the loop over children from the i-th on, left at the break
RECURSIVE EvalLoop(_, _, _, _)
EvalLoop(st, cs, as, i) ==
    IF i > Len(cs) \/ st.broke THEN st
    ELSE EvalLoop(EvalChild(st, cs[i], as), cs, as, i + 1)

\* the ids of the persons in a list
IdsOf(list) == {list[i].id : i \in 1..Len(list)}

engineRest == <<camVars, srcVars, prodVars, fgVars, obsVars, bufVars>>

\* ---- the Firebase uploader -------------------------------------------------
\* what may become of a call: the uploader is disabled; the first request is
\* answered 200; the first is not but the one with ?auth= is; neither is; the
\* request times out; the request raises another exception
Outcomes == {"disabled", "ok", "ok_auth", "rejected", "timeout", "error"}

\* update_status letting an exception other than a timeout through
update_status_NoCatch(outcome) ==
    CASE outcome = "disabled" -> "False"
      [] outcome = "ok"       -> "True"
      [] outcome = "ok_auth"  -> "True"
      [] outcome = "rejected" -> "False"
      [] outcome = "timeout"  -> "False"
      [] outcome = "error"    -> "raise"

\* FirebaseUploader.update_status: "True", "False", or "raise" when an
\* exception leaves the call
update_status(outcome) ==
    CASE outcome = "disabled" -> "False"
      [] outcome = "ok"       -> "True"
      [] outcome = "ok_auth"  -> "True"
      [] outcome = "rejected" -> "False"
      [] outcome = "timeout"  -> "False"
      [] outcome = "error"    -> "False"

\* FirebaseUploader.send_alert: one except clause takes every exception
send_alert(outcome) ==
    CASE outcome = "disabled" -> "False"
      [] outcome = "ok"       -> "True"
      [] outcome = "ok_auth"  -> "True"
      [] outcome = "rejected" -> "False"
      [] outcome \in {"timeout", "error"} -> "False"

\* what firebase.update_status may return to the loop
StatusResults == {update_status(outcome) : outcome \in Outcomes}

\* ---- zone-crossing detection ------------------------------------------------
\* the bookkeeping the per-person loop starts from
TrackStart ==
    [zone |-> child_zone_status, cooldown |-> alert_cooldown,
     crossed |-> 0, sent |-> 0]

\* the crossing test with the timestamp moved by every crossing
TrackChild_StampAlways(tr, c) ==
    LET in_zone == is_inside(c.pos)
        was_in_zone == tr.zone[c.id]
        due == \/ c.id \notin DOMAIN tr.cooldown
               \/ tr.cooldown[c.id] > ALERT_COOLDOWN_SECONDS
    IN  IF in_zone /\ ~was_in_zone
          THEN IF due
                 THEN [zone |-> [tr.zone EXCEPT ![c.id] = in_zone],
                       cooldown |-> Put(tr.cooldown, c.id, 0),
                       crossed |-> c.id, sent |-> c.id]
                 ELSE [tr EXCEPT !.zone[c.id] = in_zone,
                                 !.cooldown = Put(tr.cooldown, c.id, 0),
                                 !.crossed = c.id]
          ELSE [tr EXCEPT !.zone[c.id] = in_zone]

\* the crossing test without the stored membership: every sighting inside
\* the zone counts as a crossing
TrackChild_NoMembership(tr, c) ==
    LET in_zone == is_inside(c.pos)
        due == \/ c.id \notin DOMAIN tr.cooldown
               \/ tr.cooldown[c.id] > ALERT_COOLDOWN_SECONDS
    IN  IF in_zone
          THEN IF due
                 THEN [zone |-> [tr.zone EXCEPT ![c.id] = in_zone],
                       cooldown |-> Put(tr.cooldown, c.id, 0),
                       crossed |-> c.id, sent |-> c.id]
                 ELSE [tr EXCEPT !.zone[c.id] = in_zone, !.crossed = c.id]
          ELSE [tr EXCEPT !.zone[c.id] = in_zone]

\* lines 321-343 for one child: a crossing (inside now, outside at its last
\* sighting) sends an alert when the last alert of the id is more than
\* ALERT_COOLDOWN_SECONDS old (an id without one has alert_cooldown.get(id, 0),
\* the epoch); the stored membership is set in every case
TrackChild(tr, c) ==
    LET in_zone == is_inside(c.pos)
        was_in_zone == tr.zone[c.id]
        due == \/ c.id \notin DOMAIN tr.cooldown
               \/ tr.cooldown[c.id] > ALERT_COOLDOWN_SECONDS
    IN  IF in_zone /\ ~was_in_zone
          THEN IF due
                 THEN [zone |-> [tr.zone EXCEPT ![c.id] = in_zone],
                       cooldown |-> Put(tr.cooldown, c.id, 0),
                       crossed |-> c.id, sent |-> c.id]
                 ELSE [tr EXCEPT !.zone[c.id] = in_zone, !.crossed = c.id]
          ELSE [tr EXCEPT !.zone[c.id] = in_zone]

\* the per-person loop over the children of a list from the i-th on
RECURSIVE TrackLoop(_, _, _)
TrackLoop(tr, cs, i) ==
    IF i > Len(cs) THEN tr
    ELSE TrackLoop(TrackChild(tr, cs[i]), cs, i + 1)

\* what firebase.send_alert may return to a per-person loop that sent an
\* alert for child sent; "none" when it sent no alert
AlertResults(sent) ==
    IF sent = 0 THEN {"none"} ELSE {send_alert(outcome) : outcome \in Outcomes}

\* the per-person loop with the crossing test made for the first child only
DetectChild_FirstOnly ==
    /\ sup_pc = "detect"
    /\ \E id \in ChildIds, pos \in ChildPositions :
         LET c == [id |-> id, pos |-> pos]
             tr == IF children = <<>> THEN TrackChild(TrackStart, c) ELSE TrackStart
         IN  /\ \A k \in IdsOf(children) : k < id
             /\ children' = Append(children, c)
             /\ child_zone_status' = tr.zone
             /\ alert_cooldown' = tr.cooldown
             /\ crossed' = tr.crossed
             /\ alert_sent' = tr.sent
             /\ since_alert' = IF tr.sent = 0 THEN since_alert
                                ELSE Put(since_alert, tr.sent, 0)
             /\ \E res \in AlertResults(tr.sent) :
                   /\ relay_result' = res
                   /\ sup_pc' = IF res = "raise" THEN "crashed" ELSE sup_pc
    /\ UNCHANGED <<adults, prev_positions, global_status, children_in_danger,
                   prev_at_start, contrib, reused>>
    /\ UNCHANGED <<prev_status, frame_counter, since_push, last_relayed, zoneVars>>
    /\ UNCHANGED engineRest

\* the per-person loop appends a person classified CHILD and looks for a
\* zone crossing.  Ids are names only: the persons of a frame are listed in
\* the order of their ids, their positions in every order.
DetectChild ==
    /\ sup_pc = "detect"
    /\ \E id \in ChildIds, pos \in ChildPositions :
         LET c == [id |-> id, pos |-> pos]
             tr == TrackChild(TrackStart, c)
         IN  /\ \A k \in IdsOf(children) : k < id
             /\ children' = Append(children, c)
             /\ child_zone_status' = tr.zone
             /\ alert_cooldown' = tr.cooldown
             /\ crossed' = tr.crossed
             /\ alert_sent' = tr.sent
             /\ since_alert' = IF tr.sent = 0 THEN since_alert
                                ELSE Put(since_alert, tr.sent, 0)
             /\ \E res \in AlertResults(tr.sent) :
                   /\ relay_result' = res
                   /\ sup_pc' = IF res = "raise" THEN "crashed" ELSE sup_pc
    /\ UNCHANGED <<adults, prev_positions, global_status, children_in_danger,
                   prev_at_start, contrib, reused>>
    /\ UNCHANGED <<prev_status, frame_counter, since_push, last_relayed, zoneVars>>
    /\ UNCHANGED engineRest

\* the per-person loop appends a person classified ADULT
DetectAdult ==
    /\ sup_pc = "detect"
    /\ \E id \in AdultIds, pos \in AdultPositions :
         /\ \A k \in IdsOf(adults) : k < id
         /\ adults' = Append(adults, [id |-> id, pos |-> pos])
    /\ crossed' = 0
    /\ alert_sent' = 0
    /\ relay_result' = "none"
    /\ UNCHANGED <<sup_pc, children, prev_positions, global_status,
                   children_in_danger, prev_at_start, contrib, reused>>
    /\ UNCHANGED <<child_zone_status, alert_cooldown, since_alert>>
    /\ UNCHANGED <<prev_status, frame_counter, since_push, last_relayed, zoneVars>>
    /\ UNCHANGED engineRest

\* "Evaluate supervision relative to children": lines 349-384
EvalFrame ==
    /\ sup_pc = "detect"
    /\ LET r == EvalLoop(LoopStart(prev_positions), children, adults, 1)
       IN  /\ global_status' = r.status
           /\ children_in_danger' = r.danger
           /\ prev_positions' = r.prev
           /\ contrib' = r.contrib
    /\ prev_at_start' = prev_positions
    /\ sup_pc' = "evaluated"
    /\ crossed' = 0
    /\ alert_sent' = 0
    /\ relay_result' = "none"
    /\ UNCHANGED <<children, adults, reused>>
    /\ UNCHANGED <<child_zone_status, alert_cooldown, since_alert>>
    /\ UNCHANGED <<prev_status, frame_counter, since_push, last_relayed, zoneVars>>
    /\ UNCHANGED engineRest

\* an iteration whose detection raises as if it cleared the cached list
ReuseDetections_Forget ==
    /\ sup_pc \in {"evaluated", "pushed"}
    /\ children' = <<>>
    /\ adults' = <<>>
    /\ global_status' = "safe"
    /\ children_in_danger' = <<>>
    /\ contrib' = <<>>
    /\ prev_at_start' = prev_positions
    /\ sup_pc' = "evaluated"
    /\ reused' = TRUE
    /\ crossed' = 0
    /\ alert_sent' = 0
    /\ relay_result' = "none"
    /\ UNCHANGED <<prev_positions, child_zone_status, alert_cooldown, since_alert>>
    /\ UNCHANGED <<prev_status, frame_counter, since_push, last_relayed, zoneVars>>
    /\ UNCHANGED engineRest

\* an iteration that runs on the cached detections (persons = last_persons):
\* the detector was not called on this frame (lines 293-295) or it raised
\* (lines 290-292).  The per-person loop builds the same two lists again and
\* repeats the crossing test on each child, then the frame is evaluated.
ReuseDetections ==
    /\ sup_pc \in {"evaluated", "pushed"}
    /\ LET tr == TrackLoop(TrackStart, children, 1)
       IN  /\ child_zone_status' = tr.zone
           /\ alert_cooldown' = tr.cooldown
           /\ crossed' = tr.crossed
           /\ alert_sent' = tr.sent
           /\ since_alert' = IF tr.sent = 0 THEN since_alert
                              ELSE Put(since_alert, tr.sent, 0)
           /\ \E res \in AlertResults(tr.sent) :
                 /\ relay_result' = res
                 /\ sup_pc' = IF res = "raise" THEN "crashed" ELSE "evaluated"
    /\ LET r == EvalLoop(LoopStart(prev_positions), children, adults, 1)
       IN  /\ global_status' = r.status
           /\ children_in_danger' = r.danger
           /\ prev_positions' = r.prev
           /\ contrib' = r.contrib
    /\ prev_at_start' = prev_positions
    /\ reused' = TRUE
    /\ UNCHANGED <<children, adults>>
    /\ UNCHANGED <<prev_status, frame_counter, since_push, last_relayed, zoneVars>>
    /\ UNCHANGED engineRest

\* the status relay with a push on every change only
PushStatus_NoInterval ==
    /\ sup_pc = "evaluated"
    /\ \E res \in StatusResults :
         IF global_status # prev_status
           THEN /\ relay_result' = res
                /\ sup_pc' = IF res = "raise" THEN "crashed" ELSE "pushed"
                /\ last_relayed' = global_status
                /\ prev_status' = global_status
                /\ frame_counter' = 0
                /\ since_push' = 0
           ELSE /\ relay_result' = "none"
                /\ sup_pc' = "pushed"
                /\ frame_counter' = Min(frame_counter + 1, upload_interval + 1)
                /\ since_push' = Min(since_push + 1, upload_interval + 1)
                /\ UNCHANGED <<last_relayed, prev_status>>
    /\ UNCHANGED <<children, adults, prev_positions, global_status,
                   children_in_danger, prev_at_start, contrib, reused>>
    /\ UNCHANGED <<trackVars, zoneVars>>
    /\ UNCHANGED engineRest

\* lines 399-412: frame_counter += 1; update_status is called when the status
\* differs from prev_status or frame_counter has reached upload_interval, and
\* then prev_status and frame_counter are set whatever the call returned
PushStatus ==
    /\ sup_pc = "evaluated"
    /\ \E res \in StatusResults :
         IF global_status # prev_status \/ frame_counter + 1 >= upload_interval
           THEN /\ relay_result' = res
                /\ sup_pc' = IF res = "raise" THEN "crashed" ELSE "pushed"
                /\ last_relayed' = global_status
                /\ prev_status' = global_status
                /\ frame_counter' = 0
                /\ since_push' = 0
           ELSE /\ relay_result' = "none"
                /\ sup_pc' = "pushed"
                /\ frame_counter' = frame_counter + 1
                /\ since_push' = since_push + 1
                /\ UNCHANGED <<last_relayed, prev_status>>
    /\ UNCHANGED <<children, adults, prev_positions, global_status,
                   children_in_danger, prev_at_start, contrib, reused>>
    /\ UNCHANGED <<trackVars, zoneVars>>
    /\ UNCHANGED engineRest

\* the next iteration, with a fresh detection: children = [], adults = [],
\* global_status = "safe".  A specification that leaves the status relay out
\* goes on from "evaluated", one that has it from "pushed".
NextFrame ==
    /\ sup_pc \in {"evaluated", "pushed"}
    /\ sup_pc' = "detect"
    /\ children' = <<>>
    /\ adults' = <<>>
    /\ global_status' = "safe"
    /\ children_in_danger' = <<>>
    /\ contrib' = <<>>
    /\ prev_at_start' = prev_positions
    /\ reused' = FALSE
    /\ crossed' = 0
    /\ alert_sent' = 0
    /\ relay_result' = "none"
    /\ UNCHANGED prev_positions
    /\ UNCHANGED <<child_zone_status, alert_cooldown, since_alert>>
    /\ UNCHANGED <<prev_status, frame_counter, since_push, last_relayed, zoneVars>>
    /\ UNCHANGED engineRest

\* lines 266-268: the zone is made once, for the size of the frame at hand
MakeZone ==
    /\ danger_zone = NoZone
    /\ \E w \in Dims, h \in Dims : danger_zone' = DangerZone(w, h)
    /\ UNCHANGED <<probe, probe_inside>>
    /\ UNCHANGED <<supVars, trackVars, relayVars>>
    /\ UNCHANGED engineRest

\* a call danger_zone.is_inside(x, y)
ProbeZone ==
    /\ danger_zone # NoZone
    /\ \E x \in Coords, y \in Coords :
         /\ probe' = <<x, y>>
         /\ probe_inside' = is_inside(<<x, y>>)
    /\ UNCHANGED danger_zone
    /\ UNCHANGED <<supVars, trackVars, relayVars>>
    /\ UNCHANGED engineRest

\* the loop of main() on frames that arrive from an open camera
LoopInit ==
    /\ CamInit
    /\ cap = "open"
    /\ ~is_stream
    /\ ~is_file
    /\ BufInit /\ EngineInit /\ TrackInit /\ RelayInit
    /\ main_pc = "show"

\* the loop as far as it evaluates supervision, the zone of the default
\* resolution made
SupInit ==
    /\ LoopInit
    /\ danger_zone = DangerZone(FrameWidth, FrameHeight)
    /\ probe = <<>>
    /\ probe_inside = FALSE

SupNext ==
    \/ DetectChild
    \/ DetectAdult
    \/ EvalFrame
    \/ sup_pc = "evaluated" /\ ReuseDetections
    \/ sup_pc = "evaluated" /\ NextFrame

SupSpec == SupInit /\ [][SupNext]_vars

\* the loop as far as it detects zone crossings and sends alerts, on frames
\* without adults, while time passes
AlertNext ==
    \/ Tick
    \/ DetectChild
    \/ EvalFrame
    \/ sup_pc = "evaluated" /\ ReuseDetections
    \/ sup_pc = "evaluated" /\ NextFrame

AlertSpec == SupInit /\ [][AlertNext]_vars

\* the loop with the status relay at the end of every iteration, on frames
\* without adults
RelayNext ==
    \/ DetectChild
    \/ EvalFrame
    \/ PushStatus
    \/ sup_pc = "pushed" /\ ReuseDetections
    \/ sup_pc = "pushed" /\ NextFrame

RelaySpec == SupInit /\ [][RelayNext]_vars

\* the making of the danger zone for a frame of any size, and calls of
\* is_inside on it
ZoneNext ==
    \/ MakeZone
    \/ ProbeZone

\* the loop before its first frame: no zone made yet
FirstFrameInit == LoopInit /\ ZoneInit

ZoneSpec == FirstFrameInit /\ [][ZoneNext]_vars

\* ---- main(): the orchestration loop as far as it drives the camera ------
MainInit == CamInit /\ AppInit /\ main_pc = "start"

\* cap = ThreadedCamera(...).start(); then time.sleep(3)
MainStart ==
    /\ main_pc = "start"
    /\ StartThread
    /\ main_pc' = "wait"
    /\ UNCHANGED <<camVars, srcVars, consecutive_failures, rc_site, rel_pc, rel_calls,
                   frame_timeout_counter, last_valid_frame, obsVars>>
    /\ UNCHANGED appVars

\* if not cap.isOpened(): sys.exit(1)
MainCheckOpen ==
    /\ main_pc = "wait"
    /\ main_pc' = IF IsOpenedVal THEN "loop" ELSE "exit"
    /\ UNCHANGED <<camVars, srcVars, prodVars, rel_pc, rel_calls, frame_timeout_counter,
                   last_valid_frame, obsVars>>
    /\ UNCHANGED appVars

\* the bookkeeping with the last frame reused while the counter is at most
\* the limit
FrameTimeout_OneMore(ok) ==
    /\ main_pc = "loop"
    /\ IF ok
         THEN /\ last_valid_frame' = TRUE
              /\ frame_timeout_counter' = 0
              /\ main_pc' = "show"
         ELSE /\ frame_timeout_counter' = frame_timeout_counter + 1
              /\ last_valid_frame' = last_valid_frame
              /\ main_pc' = IF last_valid_frame
                                /\ frame_timeout_counter + 1 <= frame_timeout_limit
                             THEN "show" ELSE "release"
    /\ UNCHANGED <<camVars, srcVars, prodVars, rel_pc, rel_calls, obsVars>>
    /\ UNCHANGED appVars

\* lines 232-251, the frame-timeout bookkeeping for a read() that returned ok:
\* a failed read counts, and the last valid frame is reused while there is one
\* and the counter is below the limit, else the loop is left; a valid frame
\* is kept and sets the counter to 0
FrameTimeout(ok) ==
    /\ main_pc = "loop"
    /\ IF ok
         THEN /\ last_valid_frame' = TRUE
              /\ frame_timeout_counter' = 0
              /\ main_pc' = "show"
         ELSE /\ frame_timeout_counter' = frame_timeout_counter + 1
              /\ last_valid_frame' = last_valid_frame
              /\ main_pc' = IF last_valid_frame
                                /\ frame_timeout_counter + 1 < frame_timeout_limit
                             THEN "show" ELSE "release"
    /\ UNCHANGED <<camVars, srcVars, prodVars, rel_pc, rel_calls, obsVars>>
    /\ UNCHANGED appVars

\* ret, frame = cap.read() and the frame-timeout bookkeeping
MainRead ==
    /\ lock = "free"
    /\ FrameTimeout(ReadOk)

\* the same iteration for a camera of which only the interface of read() is
\* known: it returns a frame or it fails
MainReadAny == \E ok \in BOOLEAN : FrameTimeout(ok)

\* the rest of the iteration; with a display, key q breaks out of the loop
MainShow ==
    /\ main_pc = "show"
    /\ \E q \in BOOLEAN : main_pc' = IF q THEN "release" ELSE "loop"
    /\ UNCHANGED <<camVars, srcVars, prodVars, rel_pc, rel_calls, frame_timeout_counter,
                   last_valid_frame, obsVars>>
    /\ UNCHANGED appVars

MainStep ==
    \/ MainStart
    \/ MainCheckOpen
    \/ MainRead
    \/ MainShow
    \/ Release

Next ==
    \/ Tick
    \/ Start
    \/ Producer
    \/ Release

Spec == Init /\ [][Next]_vars

\* the producer while the source delivers, and a client that reads, keeps and
\* draws on frames and releases the camera
CopyNext ==
    \/ Start
    \/ LoopTop
    \/ ChkOpen
    \/ ReadFrame
    \/ StoreFrame
    \/ StoreDone
    \/ PostStore
    \/ ReadCopy
    \/ DrawOnFrame
    \/ Release

CopySpec == Init /\ [][CopyNext]_vars

MainNext ==
    \/ Tick
    \/ Producer
    \/ MainStep

MainSpec == MainInit /\ [][MainNext]_vars

\* both threads keep running while they have a step to take
FairMainSpec == MainSpec /\ WF_vars(Producer) /\ WF_vars(MainStep)

\* the loop of main on its own, from its first iteration on, with read() as
\* an input: every sequence of valid and failed reads
BridgeInit == CamInit /\ AppInit /\ main_pc = "loop"

BridgeNext ==
    \/ MainReadAny
    \/ MainShow

BridgeSpec == BridgeInit /\ [][BridgeNext]_vars

\* ---- the claims -----------------------------------------------------------
\* the producer left its loop on its own: attempts exhausted, or a reconnect failed
ProducerFailed == term \in {"exhausted", "reconnect_failed"}

InMainLoop == main_pc \in {"loop", "show"}

\* C1: once the producer thread has terminated on exhausted (or failed)
\* reconnects, the loop of main() eventually leaves its while-loop and goes on
\* to cap.release(); it does not iterate forever on the last stored frame.
C1_MainLeavesLoop ==
    (ProducerFailed /\ InMainLoop) ~> (main_pc \in {"release", "done"})

\* C2: after the producer has terminated on exhaustion of the reconnect
\* attempts, read() returns ok = false in every later state, also when a frame
\* had been stored in the slot before the failure.
C2_ReadFalseAfterExhaustion == term = "exhausted" => ~ReadOk

\* C3: in every state where the last successful frame is older than the
\* staleness threshold, read() returns ok = false although a frame is in the slot.
C3_ReadFalseWhenStale == since_success > stale_frame_threshold => ~ReadOk

\* C4: isOpened() is true iff the handle reports open and a frame was actually
\* produced within the staleness threshold; an open handle that has produced no
\* frame since construction reports closed.
C4_IsOpenedIffOpenAndProducing ==
    IsOpenedVal <=>
        (cap = "open" /\ frame_count > 0 /\ since_success < stale_frame_threshold)

\* C5: the producer leaves its loop on its own only after the maximum number
\* of reconnect attempts has been made; one reconnect whose reopened handle is
\* not open is not fatal.
C5_FatalOnlyAfterMaxAttempts ==
    ProducerFailed => reconnect_attempts >= max_reconnect_attempts

\* C6: whatever the source kind, the producer makes at most the maximum number
\* of reconnect attempts since the last successful frame before it is terminal.
C6_AttemptsBoundedPerOutage == outage_attempts <= max_reconnect_attempts

\* C7: after the reconnect attempts are exhausted, isOpened() is false in
\* every later state, whatever the state of the last reopened handle.
C7_ClosedAfterExhaustion == term = "exhausted" => ~IsOpenedVal

\* C7 witness: exhausted with the last reopened handle still open
C7_Witness == term = "exhausted" /\ cap = "open" /\ rel_calls = 0

\* C8: the failure cap is answered by exactly one reconnect: no iteration of
\* the producer loop makes two reconnect attempts (one for staleness and one
\* for the failure cap).
C8_OneReconnectPerIteration == iter_reconnects <= 1

\* C9: once release() has returned and the producer has stopped, the capture
\* handle is released and stays so: the producer never reopens it after
\* release() has torn it down.
C9_ReleasedStaysReleased ==
    (rel_calls >= 1 /\ rel_pc = "idle" /\ pc = "done") => cap # "open"

\* C10: a second release() leaves the observable state one call leaves: stop
\* flag set, handle released, frame slot empty, with or without a running
\* producer.
C10_ReleaseIdempotent ==
    (rel_calls >= 2 /\ rel_pc = "idle") =>
        (stopped /\ cap = "released" /\ frame = NoFrame)

\* the producer thread is inside _update
ProducerRunning == pc \notin {"idle", "done"}

\* C11: the producer holds the shared-frame lock only for the slot swap: never
\* while it sleeps, reads from the backend, reconnects or refreshes; the step
\* it takes while holding the lock is the one that releases it.
C11_LockOnlyForSwap == lock = "producer" => pc = "locked"

\* C11 witness: the producer holds the lock for a store that is not the first
C11_Witness == lock = "producer" /\ pc = "locked" /\ frame_count >= 1

\* C12: whenever read() can take the lock, the slot is empty or holds what one
\* complete store of the producer wrote: the frame together with grabbed and,
\* for a live source, the frame count of the same store.
C12_NoPartialFrame ==
    (lock = "free" /\ frame # NoFrame) =>
        (grabbed /\ (~is_file => frame = frame_count))

\* C12 witness: a later store is half done (new frame, old count) under the lock
C12_Witness ==
    lock = "producer" /\ ~is_file /\ frame_count >= 1 /\ frame = frame_count + 1

\* C13: no operation of the consumer side mutates the capture handle or writes
\* the slot while the producer runs: when release() has released the handle
\* and is about to clear the slot, the producer is not running.
C13_ConsumerLeavesHandleAlone == rel_pc = "clear" => ~ProducerRunning

\* C14: read() hands out a private copy: a frame the caller has not drawn on
\* is untouched whatever the caller did to the other frames it holds, the
\* array in the slot is never written through a returned frame, and no two
\* reads return the same buffer.
C14_ReadReturnsPrivateCopy ==
    /\ frame # NoFrame => ~Scribbled(SlotBuf)
    /\ \A i \in 1..Len(held) : Scribbled(held[i]) => i \in touched
    /\ \A i, j \in 1..Len(held) : held[i] = held[j] => i = j

\* C14 witness: two reads of the same stored frame, the first drawn on, the
\* second not
C14_Witness ==
    /\ Len(held) >= 2
    /\ touched = {1}
    /\ frame # NoFrame
    /\ frame_count = 1

\* C15: the source index of the frame in the slot, which is what successive
\* successful read() calls return, never goes backwards, also across a
\* reconnect or refresh that reopens the source.
C15_SourceOrderMonotone ==
    [][(frame # NoFrame /\ frame' # NoFrame) => frame' >= frame]_vars

\* C16: frame_count never decreases; it changes exactly in the step that
\* completes a store into the slot, and then by one: failed reads, reconnects,
\* refreshes, time and the consumer side leave it alone.
C16_FrameCountStep ==
    [][/\ frame_count' \in {frame_count, frame_count + 1}
       /\ (frame_count' # frame_count) <=> (pc = "locked" /\ pc' = "post")]_vars

\* C16 witness: two frames stored, then failed reads and a reconnect attempt
C16_Witness ==
    frame_count >= 2 /\ outage_attempts >= 1 /\ consecutive_failures >= 1

\* what the evaluation makes of child c when it is the only child of the
\* frame, given the adults of the frame and their recorded positions
AloneContribution(c) == EvalChild(LoopStart(prev_at_start), c, adults).contrib[1]

\* C17: the contribution computed for a child depends only on that child's
\* position and the adults' current and recorded positions: every child the
\* evaluation comes to gets what it would get as the only child of the frame.
C17_ChildrenIndependent ==
    sup_pc = "evaluated" =>
        \A i \in 1..Len(contrib) : contrib[i] = AloneContribution(children[i])

\* C18: an in-zone child whose nearest adult is nearer than MAX_DISTANCE and
\* has moved at least MIN_MOTION (exactly MIN_MOTION included) since its
\* recorded position contributes SAFE.
C18_SafeWhenAdultNearAndMoving ==
    sup_pc = "evaluated" =>
        \A i \in 1..Len(contrib) :
            LET c == children[i]
                n == NearestScan(c.pos, adults, 1, 0)
            IN  (/\ is_inside(c.pos)
                 /\ n # 0
                 /\ adults[n].id \in DOMAIN prev_at_start
                 /\ Dist2(adults[n].pos, c.pos) < MAX_DISTANCE * MAX_DISTANCE
                 /\ Dist2(prev_at_start[adults[n].id], adults[n].pos)
                        >= MIN_MOTION * MIN_MOTION)
                => contrib[i] = "safe"

\* C19: after every evaluated frame the stored previous position of each
\* adult seen on that frame is its position on that frame, whether or not a
\* child was in the danger zone.
C19_PrevRefreshedEveryFrame ==
    sup_pc = "evaluated" =>
        \A j \in 1..Len(adults) :
            /\ adults[j].id \in DOMAIN prev_positions
            /\ prev_positions[adults[j].id] = adults[j].pos

\* C20: a frame with at least one child inside the danger zone and no adult
\* has global status DANGER, for any number and order of children.
C20_DangerWithoutAdults ==
    (/\ sup_pc = "evaluated"
     /\ adults = <<>>
     /\ \E i \in 1..Len(children) : is_inside(children[i].pos))
    => global_status = "danger"

\* C20 witness: no adult on this frame (one was seen earlier), a child outside
\* the zone listed before a child inside it
C20_Witness ==
    /\ sup_pc = "evaluated"
    /\ adults = <<>>
    /\ DOMAIN prev_positions # {}
    /\ Len(children) = 2
    /\ ~is_inside(children[1].pos)
    /\ is_inside(children[2].pos)

\* every child of the frame is outside the danger zone
AllOutside == \A i \in 1..Len(children) : ~is_inside(children[i].pos)

\* C21: a child outside the danger zone contributes SAFE and no attentiveness
\* query is made for it (the recorded adult positions stay as they were); a
\* frame all of whose children are outside the zone has global status SAFE
\* and leaves every recorded adult position alone, whatever the adults do.
C21_OutsideZoneIsSafe ==
    sup_pc = "evaluated" =>
        /\ \A i \in 1..Len(contrib) :
               ~is_inside(children[i].pos) =>
                   /\ contrib[i] = "safe"
                   /\ EvalChild(LoopStart(prev_at_start), children[i], adults).prev
                          = prev_at_start
        /\ AllOutside =>
               /\ global_status = "safe"
               /\ children_in_danger = <<>>
               /\ prev_positions = prev_at_start

\* C21 witness: the only children are outside the zone while an adult that
\* was recorded elsewhere stands within MAX_DISTANCE of one of them
C21_Witness ==
    /\ sup_pc = "evaluated"
    /\ children # <<>>
    /\ AllOutside
    /\ \E i \in 1..Len(children), j \in 1..Len(adults) :
          /\ adults[j].id \in DOMAIN prev_at_start
          /\ Dist2(prev_at_start[adults[j].id], adults[j].pos) > MIN_MOTION * MIN_MOTION
          /\ Dist2(adults[j].pos, children[i].pos) < MAX_DISTANCE * MAX_DISTANCE

\* the order of the status values: SAFE < WARNING < DANGER
Severity(s) == CASE s = "safe" -> 0 [] s = "warning" -> 1 [] s = "danger" -> 2

\* C23: the global status of an evaluated frame is the maximum severity over
\* the contributions of its children, in every order of the children list:
\* no contribution is more severe than the status, the status is SAFE or the
\* contribution of some child, and the children the loop never came to lie
\* behind a DANGER.
C23_StatusIsMaxSeverity ==
    sup_pc = "evaluated" =>
        /\ \A i \in 1..Len(contrib) : Severity(contrib[i]) <= Severity(global_status)
        /\ \/ global_status = "safe"
           \/ \E i \in 1..Len(contrib) : contrib[i] = global_status
        /\ Len(contrib) < Len(children) => global_status = "danger"

\* C23 witness: a child with a less severe contribution is listed after a
\* child with a more severe one
C23_Witness ==
    /\ sup_pc = "evaluated"
    /\ \E i, j \in 1..Len(contrib) :
          i < j /\ Severity(contrib[i]) > Severity(contrib[j])

\* the i-th child is inside the zone and its nearest adult is nearer than
\* MAX_DISTANCE and stationary: where it was recorded, or not recorded yet
StaticSupervised(i) ==
    LET c == children[i]
        n == NearestScan(c.pos, adults, 1, 0)
    IN  /\ is_inside(c.pos)
        /\ n # 0
        /\ Dist2(adults[n].pos, c.pos) < MAX_DISTANCE * MAX_DISTANCE
        /\ \/ adults[n].id \notin DOMAIN prev_at_start
           \/ prev_at_start[adults[n].id] = adults[n].pos

\* C22: when a frame with a child in the zone and a stationary adult within
\* MAX_DISTANCE of it has been evaluated and the same frame is evaluated again
\* in the next iteration, the status is WARNING both times.
C22_StaticFrameWarnsTwice ==
    [][(/\ sup_pc = "evaluated"
        /\ sup_pc' = "evaluated"
        /\ children' = children
        /\ adults' = adults
        /\ \E i \in 1..Len(children) : StaticSupervised(i))
       => (global_status = "warning" /\ global_status' = "warning")]_vars

\* C22 witness: the second evaluation of such a frame
C22_Witness ==
    /\ sup_pc = "evaluated"
    /\ reused
    /\ global_status = "warning"
    /\ \E i \in 1..Len(children) : StaticSupervised(i)

\* C24: in a step of the per-person loop that sees child c enter the zone, an
\* alert is sent exactly when no alert was sent for c in the last
\* ALERT_COOLDOWN_SECONDS; so two alerts for one id are more than the
\* cooldown apart and of two crossings less than it apart one is silent.  A
\* silent crossing leaves the last-alert timestamps as they were.
C24_OneAlertPerCooldown ==
    [][Len(children') = Len(children) + 1 =>
         LET c == children'[Len(children')].id
             quiet == c \notin DOMAIN since_alert
                         \/ since_alert[c] > ALERT_COOLDOWN_SECONDS
         IN  /\ alert_sent' = c => quiet
             /\ crossed' = c => (alert_sent' = c <=> quiet)
             /\ alert_sent' # c => alert_cooldown' = alert_cooldown]_vars

\* C24 witness: a child comes into the zone again while its last alert is
\* between one second and the cooldown old, and no alert is sent
C24_Witness ==
    /\ crossed # 0
    /\ alert_sent = 0
    /\ crossed \in DOMAIN since_alert
    /\ since_alert[crossed] >= 1
    /\ since_alert[crossed] <= ALERT_COOLDOWN_SECONDS
    /\ alert_cooldown[crossed] = since_alert[crossed]

\* C25: after the evaluation of a frame every child of the frame, also one
\* listed after the child at which the severity scan left on DANGER, has had
\* its crossing checked and its stored zone membership set: the membership is
\* that of its position, and a child that is inside has had its alert.
C25_CrossingCoversEveryChild ==
    sup_pc = "evaluated" =>
        \A i \in 1..Len(children) :
            /\ child_zone_status[children[i].id] = is_inside(children[i].pos)
            /\ is_inside(children[i].pos) => children[i].id \in DOMAIN since_alert

\* C25 witness: the scan left at a DANGER child, and a child listed after it
\* came into the zone on this frame and got its alert
C25_Witness ==
    /\ sup_pc = "evaluated"
    /\ global_status = "danger"
    /\ \E i \in (Len(contrib) + 1)..Len(children) :
          /\ child_zone_status[children[i].id]
          /\ children[i].id \in DOMAIN since_alert
          /\ since_alert[children[i].id] = 0

\* C26: an iteration calls update_status exactly when the status of the frame
\* differs from the status the last call was given (none before the first
\* call, so the first frame is pushed) or this is the upload_interval-th
\* iteration since that call; there are never more than upload_interval
\* iterations in a row without a call.
C26_PushOnChangeOrInterval ==
    [][(sup_pc = "evaluated" /\ sup_pc' = "pushed") =>
         /\ relay_result' # "none"
               <=> (global_status # last_relayed
                      \/ since_push + 1 >= upload_interval)
         /\ since_push' <= upload_interval]_vars

\* C26 witness: upload_interval - 1 iterations went by without a call and the
\* status of the frame at hand is still the one relayed
C26_Witness ==
    /\ sup_pc = "evaluated"
    /\ since_push = upload_interval - 1
    /\ frame_counter = since_push
    /\ global_status = last_relayed

\* C27: an iteration whose detect() raises goes on with the loop, and the
\* lists it evaluates are those of the last successful detection, which the
\* failure leaves as they were.
C27_DetectFailureKeepsCache ==
    [][(sup_pc = "evaluated" /\ reused') =>
         /\ children' = children
         /\ adults' = adults
         /\ sup_pc' = "evaluated"
         /\ main_pc' = main_pc
         /\ global_status'
               = EvalLoop(LoopStart(prev_positions), children, adults, 1).status]_vars

\* C27 witness: a frame with a child and an adult evaluated on the cached lists
C27_Witness ==
    /\ sup_pc = "evaluated"
    /\ reused
    /\ InMainLoop
    /\ children # <<>>
    /\ adults # <<>>

\* the outcomes of a request that are no success
FailureOutcomes == Outcomes \ {"ok", "ok_auth"}

\* C28: update_status and send_alert return False and never raise for every
\* failing outcome (uploader disabled, timeout, connection error, no 200 on
\* either attempt), so the loop is never left through them; and whatever
\* they return, the loop sets prev_status, frame_counter and the alert
\* timestamp as on success.
C28_UploaderNeverRaises ==
    /\ sup_pc # "crashed"
    /\ relay_result \in {"none", "True", "False"}
    /\ \A o \in FailureOutcomes :
          update_status(o) = "False" /\ send_alert(o) = "False"
    /\ (sup_pc = "pushed" /\ relay_result # "none") =>
          (prev_status = global_status /\ frame_counter = 0)
    /\ alert_sent # 0 =>
          (alert_sent \in DOMAIN alert_cooldown /\ alert_cooldown[alert_sent] = 0)

\* C28 witness: update_status has just returned False, after an alert was
\* sent earlier, and the relay state is that of a successful push
C28_Witness ==
    /\ sup_pc = "pushed"
    /\ relay_result = "False"
    /\ prev_status = global_status
    /\ frame_counter = 0
    /\ DOMAIN alert_cooldown # {}

\* C29: the danger zone made for a frame of width w and height h is the
\* rectangle [floor(0.75 * w), 0, w, h] (for 480 x 360: [360, 0, 480, 360]),
\* and is_inside(x, y) is true exactly for x1 <= x <= x2 and y1 <= y <= y2,
\* the four edges included.
C29_ZoneRectangle ==
    danger_zone # NoZone =>
        LET z == danger_zone
            w == z.frame_width
            h == z.frame_height
        IN  /\ 4 * z.x1 <= 3 * w /\ 3 * w < 4 * (z.x1 + 1)
            /\ z.y1 = 0 /\ z.x2 = w /\ z.y2 = h
            /\ (w = 480 /\ h = 360) => <<z.x1, z.y1, z.x2, z.y2>> = <<360, 0, 480, 360>>
            /\ InZone(z, z.x1, z.y1) /\ InZone(z, z.x2, z.y2)
            /\ InZone(z, z.x1, z.y2) /\ InZone(z, z.x2, z.y1)
            /\ probe # <<>> =>
                  (probe_inside
                     <=> (/\ z.x1 <= probe[1] /\ probe[1] <= z.x2
                          /\ z.y1 <= probe[2] /\ probe[2] <= z.y2))

\* C29 witness: a zone whose left edge is not a whole multiple (the width is
\* not divisible by 4), probed on its right edge and found inside
C29_Witness ==
    /\ danger_zone # NoZone
    /\ danger_zone.frame_width % 4 # 0
    /\ probe # <<>>
    /\ probe[1] = danger_zone.x2
    /\ probe[2] = danger_zone.y2
    /\ probe_inside

\* release() has cleared the slot and nothing was stored since
SlotCleared == rel_calls >= 1 /\ frame = NoFrame

\* C30: a read() made before any frame was stored, or while the slot is as
\* release() cleared it, returns (False, None); it needs the lock only, not a
\* frame from the producer.
C30_ReadFalseOnEmptySlot ==
    (lock = "free" /\ (frame_count = 0 \/ SlotCleared)) => ~ReadOk

\* C30 witness: frames were stored and release() has cleared the slot, the
\* flag self.grabbed still set
C30_Witness ==
    /\ lock = "free"
    /\ SlotCleared
    /\ frame_count >= 1
    /\ grabbed

\* C31: a step of the per-person loop sends an alert for no id but that of
\* the child it handles, and only when that child is inside the zone now and
\* its stored membership (False for an id never seen) is false; a child that
\* is inside and was stored as inside gets no alert, however old its last one.
\* An iteration that sees the same persons again sends no alert at all.
C31_AlertOnlyOnEntry ==
    [][/\ Len(children') = Len(children) + 1 =>
            LET c == children'[Len(children')]
            IN  /\ alert_sent' \in {0, c.id}
                /\ alert_sent' = c.id =>
                      (is_inside(c.pos) /\ ~child_zone_status[c.id])
                /\ (is_inside(c.pos) /\ child_zone_status[c.id]) =>
                      (alert_sent' = 0 /\ since_alert' = since_alert)
       /\ (sup_pc = "evaluated" /\ sup_pc' = "evaluated") => alert_sent' = 0]_vars

\* C31 witness: a child seen inside the zone again, stored as inside, its
\* last alert older than the cooldown, and no alert sent
C31_Witness ==
    /\ sup_pc = "detect"
    /\ children # <<>>
    /\ is_inside(children[Len(children)].pos)
    /\ crossed = 0
    /\ alert_sent = 0
    /\ children[Len(children)].id \in DOMAIN since_alert
    /\ since_alert[children[Len(children)].id] > ALERT_COOLDOWN_SECONDS

\* C32: reconnect_attempts is always between 0 and max_reconnect_attempts;
\* the call of _reconnect that gives up finds the counter at the maximum and
\* sets the stop flag, leaving the handle and the counter as they are.
C32_AttemptsWithinMaximum ==
    /\ [](reconnect_attempts \in 0..max_reconnect_attempts)
    /\ [][(term # "exhausted" /\ term' = "exhausted") =>
            /\ reconnect_attempts = max_reconnect_attempts
            /\ reconnect_attempts' = reconnect_attempts
            /\ stopped'
            /\ cap' = cap]_vars

\* C32 witness: the producer has given up with the counter at the maximum
\* and the handle still the open one
C32_Witness ==
    /\ term = "exhausted"
    /\ reconnect_attempts = max_reconnect_attempts
    /\ stopped
    /\ cap = "open"
    /\ frame_count >= 1

\* C33: a successful store puts a frame into the slot with the time of the
\* last success set to now, and the steps that follow it set
\* reconnect_attempts and consecutive_failures to zero; so the counter that
\* _reconnect tests never holds more than the attempts made since the last
\* stored frame: attempts of earlier outages are not counted.
C33_StoreResetsCounters ==
    /\ [](pc # "post" => reconnect_attempts <= outage_attempts)
    /\ [][/\ ((pc = "locked" /\ pc' = "post") =>
                  (since_success' = 0 /\ grabbed' /\ frame' # NoFrame))
           /\ ((pc = "post" /\ pc' # "post") =>
                  (reconnect_attempts' = 0 /\ consecutive_failures' = 0))]_vars

\* C33 witness: a frame was just stored after an outage with reconnect
\* attempts and failed reads, which the next step resets
C33_Witness ==
    /\ pc = "post"
    /\ since_success = 0
    /\ reconnect_attempts >= 2
    /\ consecutive_failures >= 1

\* what the scan of lines 358-367 is to find: the first listed among the
\* adults at the least squared distance from cpos (as is not empty)
NearestAdult(cpos, as) ==
    CHOOSE n \in 1..Len(as) :
        /\ \A j \in 1..Len(as) : Dist2(as[n].pos, cpos) <= Dist2(as[j].pos, cpos)
        /\ \A j \in 1..(n - 1) : Dist2(as[j].pos, cpos) > Dist2(as[n].pos, cpos)

\* is_attentive for adult a and the i-th child as the evaluation of the frame
\* at hand finds it: near enough, and moved since the position stored for it
\* (stored before this frame, or earlier in this frame when a was the nearest
\* adult of an earlier child in the zone)
AttentiveAt(i, a) ==
    /\ Dist2(adults[a].pos, children[i].pos) < MAX_DISTANCE * MAX_DISTANCE
    /\ adults[a].id \in DOMAIN prev_at_start
    /\ Dist2(prev_at_start[adults[a].id], adults[a].pos) > MIN_MOTION * MIN_MOTION
    /\ ~\E k \in 1..(i - 1) :
           /\ is_inside(children[k].pos)
           /\ NearestAdult(children[k].pos, adults) = a

\* C34: after the evaluation of a frame with at least one adult, every child
\* in the zone contributes SAFE or WARNING, never DANGER, and it contributes
\* SAFE exactly when its nearest adult (least squared distance, the first
\* listed of equals) is attentive; no other adult is tested: the positions
\* stored by the test are those of the nearest adults only.
C34_OnlyNearestAdultCounts ==
    (sup_pc = "evaluated" /\ adults # <<>>) =>
        /\ Len(contrib) = Len(children)
        /\ \A i \in 1..Len(children) :
              is_inside(children[i].pos) =>
                  /\ contrib[i] \in {"safe", "warning"}
                  /\ contrib[i] = "safe" <=>
                        AttentiveAt(i, NearestAdult(children[i].pos, adults))
        /\ DOMAIN prev_positions =
              DOMAIN prev_at_start \cup
              {adults[NearestAdult(children[i].pos, adults)].id :
                  i \in {k \in 1..Len(children) : is_inside(children[k].pos)}}

\* C34 witness: a child in the zone contributes WARNING although another
\* adult than its nearest one would be attentive
C34_Witness ==
    /\ sup_pc = "evaluated"
    /\ Len(adults) = 2
    /\ \E i \in 1..Len(children) :
          /\ is_inside(children[i].pos)
          /\ contrib[i] = "warning"
          /\ \E a \in 1..2 :
                /\ a # NearestAdult(children[i].pos, adults)
                /\ AttentiveAt(i, a)

\* line 406: the count put into the status metadata
RelayedDangerCount == Len(children_in_danger)

\* the children of the frame at hand that are inside the zone
ChildrenInZone == {i \in 1..Len(children) : is_inside(children[i].pos)}

\* C35: when a status has been delivered for a frame without an adult, the
\* relayed children_in_danger count is the number of the children in the zone.
C35_DangerCountIsExact ==
    (sup_pc = "pushed" /\ relay_result = "True" /\ adults = <<>>) =>
        RelayedDangerCount = Cardinality(ChildrenInZone)

\* C36: an iteration that runs on the cached detections computes the status
\* that the iteration before it computed from the same list.
C36_ReuseKeepsStatus ==
    [][(sup_pc = "evaluated" /\ sup_pc' = "evaluated" /\ reused'
        /\ children' = children /\ adults' = adults)
       => global_status' = global_status]_vars

\* C37: once a release() has returned, no read() returns ok = true: whenever
\* a read() can take the lock, it finds the slot empty.
C37_NoFrameAfterRelease ==
    (rel_calls >= 1 /\ rel_pc = "idle" /\ lock = "free") => ~ReadOk

\* C38: frame_timeout_counter counts the failed reads since the last valid
\* one: each read either sets it to 0 and goes on with the frame read, or adds
\* one to it.  A failed read is bridged (the iteration goes on) only with a
\* last valid frame and while the counter is at most 99; the failed read that
\* makes it 100, and every failed read without a last valid frame, ends the
\* loop.
C38_BridgeAtMost99 ==
    /\ [](/\ frame_timeout_counter \in 0..frame_timeout_limit
          /\ (main_pc = "show" /\ frame_timeout_counter >= 1) =>
                (last_valid_frame /\ frame_timeout_counter <= 99)
          /\ frame_timeout_counter = 100 => main_pc \in {"release", "done"}
          /\ (frame_timeout_counter >= 1 /\ ~last_valid_frame) =>
                main_pc \in {"release", "done"})
    /\ [][main_pc = "loop" =>
            \/ /\ frame_timeout_counter' = 0
               /\ last_valid_frame'
               /\ main_pc' = "show"
            \/ /\ frame_timeout_counter' = frame_timeout_counter + 1
               /\ last_valid_frame' = last_valid_frame
               /\ main_pc' = IF last_valid_frame /\ frame_timeout_counter' <= 99
                                THEN "show" ELSE "release"]_vars

\* C38 witness: the 99th failed read in a row has been bridged
C38_Witness ==
    /\ main_pc = "show"
    /\ last_valid_frame
    /\ frame_timeout_counter = 99

====
